---- MODULE Spec2Model ----
(***************************************************************************)
(* A model of src/src/lib.rs: IntrusiveList<T>, a singly linked list whose *)
(* nodes are stack locals of the with_cons calls that link them.           *)
(*                                                                         *)
(* Memory is modelled by address.  A node lives at the address of the      *)
(* `new_node` local of one with_cons activation.  When the activation ends *)
(* the address is dead: its content is indeterminate until a later         *)
(* activation places its own `new_node` there.  Which free address an      *)
(* activation gets is a nondeterministic choice, so a dangling pointer may *)
(* come to point at a newer node or stay pointing at dead memory, and what *)
(* a read of dead memory returns is a nondeterministic choice as well.     *)
(***************************************************************************)
EXTENDS Integers, Sequences, FiniteSets, TLC

\* Bounds of the model.
MaxDepth == 3       \* deepest nesting of with_cons activations
FaultDepth == 2     \* deepest nesting explored together with panics and
                    \* replaced handle contents

None == 0                       \* Option::None of a pointer or of an item
Addrs == 1..MaxDepth            \* stack addresses a `new_node` local can occupy
Values == 1..MaxDepth           \* caller-owned values that can be passed as `value`
Ptr == Addrs \cup {None}
Handles == {"list", "other"}    \* two IntrusiveList<T> values of the caller

\* What a reference read out of dead memory refers to.
Undef == MaxDepth + 1

VARIABLES
    head,       \* head[h]: the field `head` of handle h
    mem,        \* mem[a]: the IntrusiveListNode stored at address a
    stack,      \* the active with_cons activations, outermost first
    unwinding,  \* a panic is propagating out of the innermost continuation
    cursor,     \* the Iter, IterMut, Dbg or head reference the caller holds,
                \* if any
    returned    \* what the with_cons call that returned last was given by
                \* its continuation, and what it returned

vars == <<head, mem, stack, unwinding, cursor, returned>>

\* struct IntrusiveListNode { value, next }
IntrusiveListNode(v, n) == [value |-> v, next |-> n]

\* The content of an address that holds no node of an active activation.
Dead == IntrusiveListNode(Undef, None)

\* impl Default for IntrusiveList: Self { head: None }
Default == None

\* One with_cons activation: `self`, `value`, the address of `new_node`, and
\* the value self.head had on entry.
Frame(h, v, a, p) == [self |-> h, value |-> v, node |-> a, pre |-> p]

Top == stack[Len(stack)]

\* Addresses of the `new_node` locals of the active activations.
Live == {stack[i].node : i \in 1..Len(stack)}

\* Values some active activation holds as its `&mut T`.
Borrowed == {stack[i].value : i \in 1..Len(stack)}

\* struct Iter / struct IterMut { current }, with the item its `next`
\* returned last; also the Dbg (current: the local of Dbg::fmt, item: the
\* entry written last) or the reference head() / head_mut() returned (item).
Cursor(k, h, c, i) == [kind |-> k, list |-> h, current |-> c, item |-> i]

NoCursor == Cursor("none", "list", None, None)

\* The handle is mutably borrowed by the cursor.
InUse(h) == cursor.kind # "none" /\ cursor.list = h

\* The values of the result type O of a continuation.
Results == {"a", "b"}

\* What `cont(self)` gave on line 60 and what with_cons returned on line 64.
Returned(c, v) == [cont |-> c, value |-> v]

Init ==
    /\ head = [h \in Handles |-> Default]
    /\ mem = [a \in Addrs |-> Dead]
    /\ stack = <<>>
    /\ unwinding = FALSE
    /\ cursor = NoCursor
    /\ returned = Returned("none", "none")

----
\* new_node with the old head dropped instead of linked (mutant for C1).
new_node_unlinked(value, hd) == IntrusiveListNode(value, None)

\* with_cons, lines 54-58: the node built on entry.
new_node(value, hd) == IntrusiveListNode(value, hd)

\* with_cons, line 62: the head stored after the continuation returned.
restored(node) == node.next

\* with_cons returning something else than `result` (mutant for C12).
with_cons_result_lost(result) == "none"

\* with_cons, lines 60 and 64: what the call returns, `result` being what
\* the continuation returned.
with_cons_result(result) == result

\* with_cons up to the call of `cont` (lines 51-60).  `value` is a `&mut T`,
\* so no active activation holds it; `a` is where `new_node` is placed.
with_cons_enter(h, value, a) ==
    /\ ~unwinding
    /\ ~InUse(h)
    /\ value \notin Borrowed
    /\ a \notin Live
    /\ mem' = [mem EXCEPT ![a] = new_node(value, head[h])]
    /\ head' = [head EXCEPT ![h] = a]
    /\ stack' = Append(stack, Frame(h, value, a, head[h]))
    /\ UNCHANGED <<unwinding, cursor, returned>>

\* with_cons after `cont` returned `result` (lines 60-64); `new_node` then
\* goes out of scope.  A cursor made from the `&mut Self` the continuation was given
\* cannot outlive the continuation.
with_cons_return ==
    /\ ~unwinding
    /\ stack # <<>>
    /\ ~InUse(Top.self)
    /\ head' = [head EXCEPT ![Top.self] = restored(mem[Top.node])]
    /\ mem' = [mem EXCEPT ![Top.node] = Dead]
    /\ stack' = SubSeq(stack, 1, Len(stack) - 1)
    /\ \E result \in Results : returned' = Returned(result, with_cons_result(result))
    /\ UNCHANGED <<unwinding, cursor>>

\* The innermost continuation panics.
cont_panic ==
    /\ ~unwinding
    /\ stack # <<>>
    /\ unwinding' = TRUE
    /\ UNCHANGED <<head, mem, stack, cursor, returned>>

\* The panic leaves a with_cons activation through line 60: nothing of lines
\* 62-64 runs and no local of with_cons has a destructor.
with_cons_unwind ==
    /\ unwinding
    /\ stack # <<>>
    /\ mem' = [mem EXCEPT ![Top.node] = Dead]
    /\ stack' = SubSeq(stack, 1, Len(stack) - 1)
    /\ cursor' = IF InUse(Top.self) THEN NoCursor ELSE cursor
    /\ UNCHANGED <<head, unwinding, returned>>

\* An enclosing scope catches the panic (std::panic::catch_unwind).
catch_unwind ==
    /\ unwinding
    /\ unwinding' = FALSE
    /\ UNCHANGED <<head, mem, stack, cursor, returned>>

\* core::mem::swap(list, other) through the two exclusive references.
mem_swap ==
    /\ ~unwinding
    /\ cursor.kind = "none"
    /\ head' = [h \in Handles |-> head[IF h = "list" THEN "other" ELSE "list"]]
    /\ UNCHANGED <<mem, stack, unwinding, cursor, returned>>

\* core::mem::take(h), or *h = IntrusiveList::default().
mem_take(h) ==
    /\ ~unwinding
    /\ ~InUse(h)
    /\ head' = [head EXCEPT ![h] = Default]
    /\ UNCHANGED <<mem, stack, unwinding, cursor, returned>>

----
\* IntrusiveList::head (lines 67-70): the head node's value, or None.
head_ref(h) == IF head[h] = None THEN None ELSE mem[head[h]].value

\* IntrusiveList::head_mut (lines 72-75).
head_mut(h) == IF head[h] = None THEN None ELSE mem[head[h]].value

\* Iter::next without line 115: `current` stays as take() left it (mutant
\* for C4).
Iter_next_taken(c, node) ==
    IF c = None
    THEN [item |-> None, current |-> None]
    ELSE [item |-> node.value, current |-> None]

\* Iter::next (lines 111-117) on a cursor whose field `current` is c, `node`
\* being what the read of *c gives: the item returned and the new `current`.
Iter_next(c, node) ==
    IF c = None
    THEN [item |-> None, current |-> None]
    ELSE [item |-> node.value, current |-> node.next]

\* IterMut::next with `current` copied instead of taken and line 132 left
\* out (mutant for C13).
IterMut_next_kept(c, node) ==
    IF c = None
    THEN [item |-> None, current |-> None]
    ELSE [item |-> node.value, current |-> c]

\* IterMut::next (lines 128-134).
IterMut_next(c, node) ==
    IF c = None
    THEN [item |-> None, current |-> None]
    ELSE [item |-> node.value, current |-> node.next]

\* What a read of the node at address a can give.
Reads(a) ==
    IF a \in Live THEN {mem[a]} ELSE {IntrusiveListNode(Undef, n) : n \in Ptr}

\* A loop over a chain with a cycle does not end; the model follows a chain
\* for Fuel steps, one more than there are addresses.  It stops following at
\* a dead node, whose item is Undef and whose `next` is arbitrary.
Fuel == MaxDepth + 1

\* The items `for x in list.iter()` sees, starting from `current` = c.
RECURSIVE IterCollect(_, _)
IterCollect(c, fuel) ==
    IF fuel = 0 \/ c = None
    THEN <<>>
    ELSE <<Iter_next(c, mem[c]).item>>
             \o IterCollect(Iter_next(c, mem[c]).current, fuel - 1)

RECURSIVE IterMutCollect(_, _)
IterMutCollect(c, fuel) ==
    IF fuel = 0 \/ c = None
    THEN <<>>
    ELSE <<IterMut_next(c, mem[c]).item>>
             \o IterMutCollect(IterMut_next(c, mem[c]).current, fuel - 1)

\* IntrusiveList::iter (lines 81-86): the cursor starts at a copy of head.
iter_start(h) == head[h]

\* IntrusiveList::iter_mut (lines 88-93).
iter_mut_start(h) == head[h]

IterSeq(h) == IterCollect(iter_start(h), Fuel)
IterMutSeq(h) == IterMutCollect(iter_mut_start(h), Fuel)

\* Formatter::debug_list and DebugList::entry / finish, as Dbg::fmt uses
\* them: "[", the entries separated by ", ", then "]".
Tok(k, v) == [kind |-> k, value |-> v]
debug_list == [out |-> <<Tok("[", None)>>, has_fields |-> FALSE]
entry(builder, v) ==
    [out |-> builder.out \o (IF builder.has_fields THEN <<Tok(", ", None)>> ELSE <<>>)
                         \o <<Tok("entry", v)>>,
     has_fields |-> TRUE]
finish(builder) == builder.out \o <<Tok("]", None)>>

\* Dbg::fmt, the loop of lines 29-33.
RECURSIVE fmt_loop(_, _, _)
fmt_loop(current, builder, fuel) ==
    IF fuel = 0 \/ current = None
    THEN builder
    ELSE fmt_loop(mem[current].next, entry(builder, mem[current].value), fuel - 1)

\* Dbg::fmt with the loop started behind the head node (mutant for C9).
Dbg_fmt_behind_head(h) ==
    finish(fmt_loop(IF head[h] = None THEN None ELSE mem[head[h]].next, debug_list, Fuel))

\* Dbg::fmt (lines 27-36) of list.debug().
Dbg_fmt(h) == finish(fmt_loop(head[h], debug_list, Fuel))

----
\* iter() taking the head out of the list as line 57 does (mutant for C14).
iter_taking(h) ==
    /\ ~unwinding
    /\ cursor.kind = "none"
    /\ cursor' = Cursor("iter", h, iter_start(h), None)
    /\ head' = [head EXCEPT ![h] = None]
    /\ UNCHANGED <<mem, stack, unwinding, returned>>

\* list.iter(): the caller now holds an Iter borrowing h.
iter(h) ==
    /\ ~unwinding
    /\ cursor.kind = "none"
    /\ cursor' = Cursor("iter", h, iter_start(h), None)
    /\ UNCHANGED <<head, mem, stack, unwinding, returned>>

\* list.iter_mut().
iter_mut(h) ==
    /\ ~unwinding
    /\ cursor.kind = "none"
    /\ cursor' = Cursor("iter_mut", h, iter_mut_start(h), None)
    /\ UNCHANGED <<head, mem, stack, unwinding, returned>>

\* One call of Iter::next on the cursor.
iter_next ==
    /\ ~unwinding
    /\ cursor.kind = "iter"
    /\ \E node \in Reads(cursor.current) :
         cursor' = [cursor EXCEPT !.current = Iter_next(cursor.current, node).current,
                                  !.item = Iter_next(cursor.current, node).item]
    /\ UNCHANGED <<head, mem, stack, unwinding, returned>>

\* One call of IterMut::next on the cursor.
iter_mut_next ==
    /\ ~unwinding
    /\ cursor.kind = "iter_mut"
    /\ \E node \in Reads(cursor.current) :
         cursor' = [cursor EXCEPT !.current = IterMut_next(cursor.current, node).current,
                                  !.item = IterMut_next(cursor.current, node).item]
    /\ UNCHANGED <<head, mem, stack, unwinding, returned>>

\* The cursor goes out of scope.
cursor_drop ==
    /\ ~unwinding
    /\ cursor.kind # "none"
    /\ cursor' = NoCursor
    /\ UNCHANGED <<head, mem, stack, unwinding, returned>>

\* list.head(): the caller now holds the Option<&T>, borrowing h.
call_head(h) ==
    /\ ~unwinding
    /\ cursor.kind = "none"
    /\ cursor' = Cursor("head", h, None, head_ref(h))
    /\ UNCHANGED <<head, mem, stack, unwinding, returned>>

\* list.head_mut(): the caller now holds the Option<&mut T>, borrowing h.
call_head_mut(h) ==
    /\ ~unwinding
    /\ cursor.kind = "none"
    /\ cursor' = Cursor("head_mut", h, None, head_mut(h))
    /\ UNCHANGED <<head, mem, stack, unwinding, returned>>

\* list.debug() (lines 95-97): the caller now holds a Dbg borrowing h.
debug(h) ==
    /\ ~unwinding
    /\ cursor.kind = "none"
    /\ cursor' = Cursor("dbg", h, None, None)
    /\ UNCHANGED <<head, mem, stack, unwinding, returned>>

\* Dbg::fmt is called on the Dbg (lines 27-29): its local `current` starts
\* at the head.
Dbg_fmt_start ==
    /\ ~unwinding
    /\ cursor.kind = "dbg"
    /\ cursor' = [cursor EXCEPT !.current = head[cursor.list], !.item = None]
    /\ UNCHANGED <<head, mem, stack, unwinding, returned>>

\* One turn of the loop of Dbg::fmt (lines 30-33): an entry is written and
\* `current` moves on.
Dbg_fmt_step ==
    /\ ~unwinding
    /\ cursor.kind = "dbg"
    /\ cursor.current # None
    /\ \E node \in Reads(cursor.current) :
         cursor' = [cursor EXCEPT !.current = node.next, !.item = node.value]
    /\ UNCHANGED <<head, mem, stack, unwinding, returned>>

----
\* What a continuation (or the code holding the lists) can do next.
\* Enter(depth): a with_cons call, nested at most `depth` deep, of one of the
\* first `depth` values, its node at one of the first `depth` addresses.
Enter(depth) ==
    /\ Len(stack) < depth
    /\ \E h \in Handles, v \in 1..depth, a \in 1..depth : with_cons_enter(h, v, a)
Replace == mem_swap \/ \E h \in Handles : mem_take(h)
Fail == cont_panic \/ with_cons_unwind \/ catch_unwind
Traverse ==
    \/ \E h \in Handles : iter(h) \/ iter_mut(h)
    \/ iter_next
    \/ iter_mut_next
    \/ cursor_drop

Observe ==
    \/ \E h \in Handles : call_head(h) \/ call_head_mut(h) \/ debug(h)
    \/ Dbg_fmt_start
    \/ Dbg_fmt_step

\* Everything a caller can write against the public interface.
Next == Enter(FaultDepth) \/ with_cons_return \/ Replace \/ Fail \/ Traverse \/ Observe

Spec == Init /\ [][Next]_vars

\* The same without cursors.
NextCons == Enter(FaultDepth) \/ with_cons_return \/ Replace \/ Fail

ConsSpec == Init /\ [][NextCons]_vars

\* The intended use: with_cons calls nested in one another, each continuation
\* returning normally and using the lists only through with_cons, head,
\* head_mut, iter, iter_mut and debug.
NextNested == Enter(MaxDepth) \/ with_cons_return \/ Traverse

NestedSpec == Init /\ [][NextNested]_vars

\* The intended use, with the reads of the head and the debug adapter.
NextAccess == NextNested \/ Observe

AccessSpec == Init /\ [][NextAccess]_vars

----
\* The activations on handle h, outermost first, and the values they
\* registered, innermost first.
FramesOn(h) == SelectSeq(stack, LAMBDA f : f.self = h)
ActiveValues(h) ==
    [i \in 1..Len(FramesOn(h)) |-> FramesOn(h)[Len(FramesOn(h)) + 1 - i].value]

\* The value registered by the innermost activation on h, None without one.
InnermostOn(h) == IF FramesOn(h) = <<>> THEN None ELSE ActiveValues(h)[1]

\* A with_cons activation ends in this step, by return or by a panic.
Exits == Len(stack') < Len(stack)

\* Following `next` from p through nodes of active activations leads to a
\* node whose activation has ended.
RECURSIVE ReachesDead(_, _)
ReachesDead(p, fuel) ==
    IF fuel = 0 \/ p = None
    THEN FALSE
    ELSE IF p \notin Live THEN TRUE ELSE ReachesDead(mem[p].next, fuel - 1)

\* The addresses visited following `next` from p through nodes of active
\* activations, for at most `fuel` steps.
RECURSIVE LiveChain(_, _)
LiveChain(p, fuel) ==
    IF fuel = 0 \/ p = None \/ p \notin Live
    THEN <<>>
    ELSE <<p>> \o LiveChain(mem[p].next, fuel - 1)

\* The rendering "[x1, x2, ...]" of a sequence of values.
RECURSIVE Joined(_)
Joined(s) ==
    IF s = <<>>
    THEN <<>>
    ELSE IF Len(s) = 1
         THEN <<Tok("entry", s[1])>>
         ELSE <<Tok("entry", s[1]), Tok(", ", None)>> \o Joined(Tail(s))
Bracketed(s) == <<Tok("[", None)>> \o Joined(s) \o <<Tok("]", None)>>

----
\* C1: when the continuation returns normally, the head of the list after
\* with_cons returns is the head it had when with_cons was called, whatever
\* the continuation did: nested with_cons calls, swapped or overwritten
\* handle contents, panics it caught.
C1_HeadRestoredOnReturn ==
    [][(Exits /\ ~unwinding) => head'[Top.self] = Top.pre]_vars

\* C1, witness: an activation nested in another on the same chain, whose
\* continuation has replaced the contents of the handle and is about to
\* return.
C1_Witness ==
    /\ ~unwinding
    /\ Len(stack) = 2
    /\ Top.pre = stack[1].node
    /\ head[Top.self] # Top.node

\* C2: after any with_cons call exits, by a normal return or by a panic
\* propagating out of the continuation, head is its value before the call.
C2_HeadRestoredOnEveryExit ==
    [][Exits => head'[Top.self] = Top.pre]_vars

\* C3: no node whose with_cons activation has ended is reachable from the
\* head of a list handle or held by a cursor.
C3_NoDeadNodeReachable ==
    /\ \A h \in Handles : ~ReachesDead(head[h], Fuel)
    /\ ~ReachesDead(cursor.current, Fuel)

\* C4: inside nested with_cons calls with values v1 (outermost) ... vn
\* (innermost) on one list, iter() and iter_mut() both yield vn, ..., v1.
C4_TraversalNewestFirst ==
    \A h \in Handles :
        /\ IterSeq(h) = ActiveValues(h)
        /\ IterMutSeq(h) = ActiveValues(h)

\* C4, witness: three nested activations on one list, registered in an order
\* that is not the order of the values, traversed innermost first.
C4_Witness ==
    /\ Len(FramesOn("list")) = 3
    /\ [i \in 1..3 |-> stack[i].value] = <<2, 3, 1>>
    /\ IterSeq("list") = <<1, 3, 2>>
    /\ IterMutSeq("list") = <<1, 3, 2>>

\* C5: head() and head_mut() return the value registered by the innermost
\* with_cons activation on the list, and None exactly when there is none.
C5_HeadIsInnermostActive ==
    \A h \in Handles :
        /\ head_ref(h) = InnermostOn(h)
        /\ head_mut(h) = InnermostOn(h)

\* C6: the length of a traversal of a list is the number of with_cons
\* activations on it.
C6_LengthIsActiveCount ==
    \A h \in Handles : Len(IterSeq(h)) = Len(FramesOn(h))

\* C7: the chain from the head of a list visits no node twice and ends.  (A
\* node whose activation has ended is not followed, what lies behind it
\* being indeterminate; C3 is the claim about reaching one.)
C7_ChainAcyclic ==
    \A h \in Handles :
        \A i, j \in 1..Len(LiveChain(head[h], Fuel)) :
            i # j => LiveChain(head[h], Fuel)[i] # LiveChain(head[h], Fuel)[j]

\* C8: a traversal of a list without an active with_cons call yields
\* nothing, and as long as no with_cons call is entered or left a traversal
\* of a list yields the same sequence again.
C8_EmptyAndRestartable ==
    /\ [](\A h \in Handles :
            FramesOn(h) = <<>> => IterSeq(h) = <<>> /\ IterMutSeq(h) = <<>>)
    /\ [][stack' = stack =>
            \A h \in Handles : IterSeq(h)' = IterSeq(h) /\ IterMutSeq(h)' = IterMutSeq(h)]_vars

C11_UnlinkInnermostAtHead ==
    [][Exits =>
         /\ stack' = SubSeq(stack, 1, Len(stack) - 1)
         /\ ~unwinding => head[Top.self] = Top.node]_vars

\* C12: with_cons called with value v on a list whose chain is C runs its
\* continuation on the chain v, C: the new node is the head, its `next` is
\* the head the list had, every node there was is unchanged, and so is the
\* other list; and with_cons returns what the continuation returned.  (A
\* chain C is a finite one of nodes of active activations, ending in None.)
ChainFrom(p) == ~ReachesDead(p, Fuel) /\ Len(LiveChain(p, Fuel)) < Fuel

C12_ConsPrependsAndReturnsResult ==
    [][/\ Len(stack') > Len(stack) =>
            \E h \in Handles :
                /\ h = stack'[Len(stack')].self
                /\ stack' = Append(stack, stack'[Len(stack')])
                /\ head' = [head EXCEPT ![h] = stack'[Len(stack')].node]
                /\ mem'[head'[h]] = IntrusiveListNode(stack'[Len(stack')].value, head[h])
                /\ \A a \in Live : mem'[a] = mem[a]
                /\ ChainFrom(head[h]) =>
                       /\ IterSeq(h)' = <<stack'[Len(stack')].value>> \o IterSeq(h)
                       /\ IterMutSeq(h)' = <<stack'[Len(stack')].value>> \o IterMutSeq(h)
       /\ (Exits /\ ~unwinding) =>
            /\ returned'.cont \in Results
            /\ returned'.value = returned'.cont]_vars

\* C12, witness: the continuation of a with_cons call on a list that had
\* one node runs on the chain of two, after an earlier call returned its
\* continuation's result.
C12_Witness ==
    /\ ~unwinding
    /\ Len(stack) = 2
    /\ head[Top.self] = Top.node
    /\ mem[Top.node].next = stack[1].node
    /\ IterSeq(Top.self) = <<Top.value, stack[1].value>>
    /\ returned = Returned("b", "b")

\* The caller holds an Iter or an IterMut.
Iterating == cursor.kind \in {"iter", "iter_mut"}

\* The items the cursor has still to yield.
Rest ==
    IF cursor.kind = "iter"
    THEN IterCollect(cursor.current, Fuel)
    ELSE IterMutCollect(cursor.current, Fuel)

\* The nodes of the list the cursor was made from, and those the cursor has
\* still to visit.
CursorChain == LiveChain(head[cursor.list], Fuel)
CursorAhead == LiveChain(cursor.current, Fuel)

\* The cursor stands on the chain it was started on, having yielded, in
\* next-link order, the value of each node before its position, the last of
\* them last.
CursorOnChain ==
    Iterating =>
        /\ ChainFrom(head[cursor.list])
        /\ Len(CursorAhead) <= Len(CursorChain)
        /\ CursorAhead = SubSeq(CursorChain,
                                Len(CursorChain) - Len(CursorAhead) + 1, Len(CursorChain))
        /\ Len(Rest) = Len(CursorAhead)
        /\ cursor.item # None =>
               /\ Len(CursorAhead) < Len(CursorChain)
               /\ cursor.item = mem[CursorChain[Len(CursorChain) - Len(CursorAhead)]].value

\* A cursor is made: it stands on the head, with all k nodes ahead.
CursorStarts ==
    (~Iterating /\ Iterating') =>
        /\ cursor'.current = head[cursor'.list]
        /\ cursor'.item = None
        /\ CursorAhead' = CursorChain'

\* An advance of a cursor that is not at the end yields the value of the
\* node it stands on and moves to that node's `next`: one node less ahead.
CursorAdvances ==
    (Iterating /\ Iterating' /\ cursor' # cursor /\ cursor.current # None) =>
        /\ cursor'.kind = cursor.kind
        /\ cursor'.item = mem[cursor.current].value
        /\ cursor'.current = mem[cursor.current].next
        /\ Rest = <<cursor'.item>> \o Rest'
        /\ Len(CursorAhead') = Len(CursorAhead) - 1

\* A cursor at the end yields nothing and stays at the end.
CursorEndAbsorbs ==
    (Iterating /\ Iterating' /\ cursor.current = None) =>
        /\ cursor'.current = None
        /\ cursor' = cursor \/ cursor'.item = None

\* C13: a cursor (Iter or IterMut) started on a chain of k nodes yields k
\* values, one per node in next-link order, then nothing, and nothing again
\* on every later advance.
C13_CursorYieldsChainThenEnds ==
    /\ []CursorOnChain
    /\ [][CursorStarts /\ CursorAdvances /\ CursorEndAbsorbs]_vars

\* C13, witness: an IterMut over a chain of three nodes that has yielded
\* the three values and then nothing.
C13_Witness ==
    /\ cursor.kind = "iter_mut"
    /\ Len(CursorChain) = 3
    /\ cursor.current = None
    /\ cursor.item = None

\* C14: head(), head_mut(), iter(), iter_mut(), an advance of a cursor and
\* the formatting of list.debug() leave the head of every list and the value
\* and next of every node as they were; an advance changes nothing of the
\* cursor but its position (and the item it hands out).
C14_ReadsLeaveListUnchanged ==
    [][cursor' # cursor =>
         /\ head' = head
         /\ mem' = mem
         /\ stack' = stack
         /\ (Iterating /\ Iterating') =>
                /\ cursor'.kind = cursor.kind
                /\ cursor'.list = cursor.list]_vars

\* C14, witness: the debug adapter has formatted a list of two nodes to the
\* end, the list still being the chain of the two.
C14_Witness ==
    /\ cursor.kind = "dbg"
    /\ cursor.current = None
    /\ Len(stack) = 2
    /\ cursor.item = stack[1].value
    /\ LiveChain(head[cursor.list], Fuel) = <<stack[2].node, stack[1].node>>

\* C15: every with_cons call being given a value no active call has lent
\* (the guard of with_cons_enter), no two nodes of the chain of a list refer
\* to the same value: one iter_mut() traversal yields no value twice, and
\* head_mut() is no value yielded for a node behind the head.
C15_ExclusiveValues ==
    \A h \in Handles :
        /\ \A i, j \in 1..Len(LiveChain(head[h], Fuel)) :
               i # j => mem[LiveChain(head[h], Fuel)[i]].value
                            # mem[LiveChain(head[h], Fuel)[j]].value
        /\ \A i, j \in 1..Len(IterMutSeq(h)) :
               i # j => IterMutSeq(h)[i] # IterMutSeq(h)[j]
        /\ \A i \in 2..Len(IterMutSeq(h)) : IterMutSeq(h)[i] # head_mut(h)

====
